---- MODULE Spec2Model ----
(***************************************************************************)
(* Model of app.py: the WooCommerce -> accounting export script.           *)
(* One run of the script is a linear pipeline: load item_database.xlsx,    *)
(* check the API credentials, read the form, fetch the orders page by      *)
(* page, sort and filter them, flatten the completed orders into ledger    *)
(* rows, compute the summary, build the Order Details sheet, export.       *)
(*                                                                         *)
(* Text is modelled as sequences of one-character strings so that strip(), *)
(* lower() and the {:05d} format are computed, not assumed.  Money is in   *)
(* integer hundredths; JSON field values carry their JSON type because     *)
(* Python's `or` and float() treat the types differently.                  *)
(***************************************************************************)
EXTENDS Integers, Sequences, FiniteSets, TLC

VARIABLES
    pc,                  \* position of the script
    item_db,             \* environment: the file item_database.xlsx
    secrets,             \* environment: st.secrets, the set of keys with a value
    name_mapping,        \* app.py:31  lower(woocommerce name) -> {zoho, hsn, usage_unit}
    invoice_prefix,      \* app.py:75
    start_sequence,      \* app.py:76
    page,                \* app.py:101
    all_orders,          \* app.py:100
    requests,            \* log of the page numbers passed to requests.get (app.py:105)
    received,            \* log of the non-empty pages response.json() returned (app.py:117)
    last_response,       \* outcome of the latest requests.get
    completed_orders,    \* app.py:139
    order_idx,           \* position of `for order in completed_orders` (app.py:146)
    sequence_number,     \* app.py:138
    csv_rows,            \* app.py:136
    invoice_log,         \* the invoice_number computed at app.py:148, one per iteration
    summary,             \* app.py:256
    order_details,       \* app.py:300-309
    artifacts,           \* what the run handed to st.download_button (app.py:313-347)
    notice,              \* the st.error / st.warning that ended the run, if any
    fn_in,               \* input of the pure-function specifications
    fn_out               \* output of the pure-function specifications

vars == <<pc, item_db, secrets, name_mapping, invoice_prefix, start_sequence,
          page, all_orders, requests, received, last_response, completed_orders,
          order_idx, sequence_number, csv_rows, invoice_log, summary,
          order_details, artifacts, notice, fn_in, fn_out>>

(***************************************************************************)
(* Bounds of the model.                                                    *)
(***************************************************************************)
\* orders the remote holds for the date window (summed over all pages)
MaxOrders == 3
\* rows of item_database.xlsx in the item-resolution specification
MaxRows == 2
\* refunds attached to one order in the revenue specification
MaxRefunds == 1

(***************************************************************************)
(* Text.                                                                   *)
(***************************************************************************)
NaN == <<"NaN">>     \* an empty spreadsheet cell as pandas reads it
None == <<"None">>   \* JSON null where text is expected

\* str.lower() on the characters the model uses
LowerChar(c) ==
    CASE c = "P" -> "p"
      [] c = "Q" -> "q"
      [] c = "Z" -> "z"
      [] OTHER -> c

Lower(s) == [i \in 1..Len(s) |-> LowerChar(s[i])]

RECURSIVE LStrip(_)
LStrip(s) == IF s # <<>> /\ Head(s) = " " THEN LStrip(Tail(s)) ELSE s

RECURSIVE RStrip(_)
RStrip(s) ==
    IF s # <<>> /\ s[Len(s)] = " " THEN RStrip(SubSeq(s, 1, Len(s) - 1)) ELSE s

\* str.strip()
Strip(s) == RStrip(LStrip(s))

\* str(x) of a spreadsheet cell: a missing cell is the float nan
CellStr(x) == IF x = NaN THEN <<"n", "a", "n">> ELSE x

\* "" if pd.isna(cell) else str(cell).strip()
CellValue(x) == IF x = NaN THEN <<>> ELSE Strip(x)

DigitChar(d) ==
    CASE d = 0 -> "0" [] d = 1 -> "1" [] d = 2 -> "2" [] d = 3 -> "3"
      [] d = 4 -> "4" [] d = 5 -> "5" [] d = 6 -> "6" [] d = 7 -> "7"
      [] d = 8 -> "8" [] d = 9 -> "9"

RECURSIVE Decimal(_)
Decimal(n) ==
    IF n < 10 THEN <<DigitChar(n)>>
    ELSE Append(Decimal(n \div 10), DigitChar(n % 10))

RECURSIVE ZeroPad(_, _)
ZeroPad(s, width) == IF Len(s) >= width THEN s ELSE ZeroPad(<<"0">> \o s, width)

\* f"{n:05d}"
Format05(n) == ZeroPad(Decimal(n), 5)

\* f"{invoice_prefix}{sequence_number:05d}"
InvoiceNumber(prefix, n) == prefix \o Format05(n)

(***************************************************************************)
(* JSON field values.                                                      *)
(***************************************************************************)
Absent == [t |-> "absent", v |-> 0]          \* the key is not in the object
Null == [t |-> "null", v |-> 0]              \* the key is there with value null
EmptyStr == [t |-> "empty", v |-> 0]         \* ""
Junk == [t |-> "junk", v |-> 0]              \* a non-empty string float() rejects
Num(n) == [t |-> "num", v |-> n]             \* a JSON number, in hundredths
NumStr(n) == [t |-> "numstr", v |-> n]       \* a string float() accepts, e.g. "200.00"

\* Python truthiness of the value dict.get returns
Truthy(x) ==
    CASE x.t = "absent" -> FALSE
      [] x.t = "null" -> FALSE
      [] x.t = "empty" -> FALSE
      [] x.t = "num" -> x.v # 0
      [] OTHER -> TRUE

\* to_float(x), in hundredths
to_float(x) ==
    CASE x.t \in {"absent", "null", "empty"} -> 0
      [] x.t \in {"num", "numstr"} -> x.v
      [] OTHER -> 0

(***************************************************************************)
(* Item Resolver: item_database.xlsx -> name_mapping  (app.py:14-50).      *)
(***************************************************************************)
\* str(col).strip().lower() on the headers the model uses
NormHeader(h) ==
    CASE h = "WooCommerce Name" -> "woocommerce name"
      [] h = " Zoho Name" -> "zoho name"
      [] h = "HSN" -> "hsn"
      [] h = "Usage Unit " -> "usage unit"
      [] OTHER -> h

required_columns == {"woocommerce name", "zoho name", "hsn", "usage unit"}

AllHeaders == {"WooCommerce Name", " Zoho Name", "HSN", "Usage Unit "}

\* the loop body of `for _, row in item_db_df.iterrows()`, applied to rows 1..n
RECURSIVE BuildNameMapping(_, _)
BuildNameMapping(rows, n) ==
    IF n = 0 THEN <<>>
    ELSE LET m == BuildNameMapping(rows, n - 1)
             row == rows[n]
             woo == Lower(Strip(CellStr(row.woo)))
         IN  IF woo = <<>> THEN m
             ELSE IF woo \in DOMAIN m THEN m
             ELSE [k \in DOMAIN m \cup {woo} |->
                     IF k = woo
                     THEN [zoho |-> CellValue(row.zoho),
                           hsn |-> CellValue(row.hsn),
                           usage_unit |-> CellValue(row.unit)]
                     ELSE m[k]]

(***************************************************************************)
(* Row Flattener: one line item  (app.py:157-228).                         *)
(***************************************************************************)
\* str(meta.get("key","")).lower() on the keys the model uses
LowerKey(k) ==
    CASE k = "HSN" -> "hsn"
      [] k = "Usage Unit" -> "usage unit"
      [] OTHER -> k

MetaText(v) == IF v = None THEN <<>> ELSE v

\* `for meta in product_meta`: the last entry with the key wins
RECURSIVE MetaLookup(_, _, _)
MetaLookup(meta, key, n) ==
    IF n = 0 THEN <<>>
    ELSE IF LowerKey(meta[n].key) = key THEN MetaText(meta[n].value)
    ELSE MetaLookup(meta, key, n - 1)

\* item name, HSN/SAC and usage unit of the row built for `item`
ResolveItem(mapping, item) ==
    LET hsn == MetaLookup(item.meta_data, "hsn", Len(item.meta_data))
        usage_unit == MetaLookup(item.meta_data, "usage unit", Len(item.meta_data))
        item_name_lower == Lower(Strip(item.name))
    IN  IF item_name_lower \in DOMAIN mapping
        THEN LET m == mapping[item_name_lower]
             IN  [item_name |-> m.zoho,
                  hsn |-> IF m.hsn # <<>> THEN m.hsn ELSE hsn,
                  usage_unit |-> IF m.usage_unit # <<>> THEN m.usage_unit
                                 ELSE usage_unit]
        ELSE [item_name |-> item.name, hsn |-> hsn, usage_unit |-> usage_unit]

\* the dict `row` of app.py:204-227, the fields the exports are read by
LedgerRow(order, invoice_number, mapping, item) ==
    LET r == ResolveItem(mapping, item)
    IN  [invoice_number |-> invoice_number,
         purchase_order |-> order.id,
         item_name |-> r.item_name,
         hsn |-> r.hsn,
         usage_unit |-> r.usage_unit,
         quantity |-> item.quantity]

\* `for item in order.get("line_items", [])`: the rows one order appends
OrderRows(order, invoice_number, mapping) ==
    [i \in 1..Len(order.line_items) |->
        LedgerRow(order, invoice_number, mapping, order.line_items[i])]

\* the increment moved into the line-item loop
AdvancePerLineItem(n, order) == n + Len(order.line_items)

\* the increment skipped for an order that appends no row
AdvanceUnlessEmpty(n, order) == IF order.line_items = <<>> THEN n ELSE n + 1

\* sequence_number += 1, once per iteration of the order loop
AdvanceSequence(n, order) == n + 1

(***************************************************************************)
(* Aggregator  (app.py:131-132, 241-252).                                  *)
(***************************************************************************)
\* order["status"].lower() on the statuses the model uses
LowerStatus(st) ==
    CASE st = "Completed" -> "completed"
      [] st = "On-Hold" -> "on-hold"
      [] OTHER -> st

\* the fields tried in another order: total before amount
RefundFieldTotalFirst(r) ==
    IF Truthy(r.total) THEN r.total
    ELSE IF Truthy(r.amount) THEN r.amount
    ELSE IF Truthy(r.refund_total) THEN r.refund_total
    ELSE Num(0)

\* r.get("amount") or r.get("total") or r.get("refund_total") or 0
RefundField(r) ==
    IF Truthy(r.amount) THEN r.amount
    ELSE IF Truthy(r.total) THEN r.total
    ELSE IF Truthy(r.refund_total) THEN r.refund_total
    ELSE Num(0)

\* sum(to_float(...) for r in refunds)
RECURSIVE RefundTotal(_, _)
RefundTotal(refunds, n) ==
    IF n = 0 THEN 0
    ELSE RefundTotal(refunds, n - 1) + to_float(RefundField(refunds[n]))

\* net_total of one order
NetTotal(order) ==
    to_float(order.total) - RefundTotal(order.refunds, Len(order.refunds))

\* total_revenue_by_order_total after the loop over orders 1..n
RECURSIVE TotalRevenue(_, _)
TotalRevenue(orders, n) ==
    IF n = 0 THEN 0 ELSE TotalRevenue(orders, n - 1) + NetTotal(orders[n])

\* get_status_count(variants) over Counter(order["status"].lower() ...)
StatusCount(orders, variants) ==
    Cardinality({i \in 1..Len(orders) : LowerStatus(orders[i].status) \in variants})

\* [o for o in all_orders if o["status"].lower() == "completed"]
RECURSIVE CompletedOf(_, _)
CompletedOf(orders, n) ==
    IF n = 0 THEN <<>>
    ELSE IF LowerStatus(orders[n].status) = "completed"
         THEN Append(CompletedOf(orders, n - 1), orders[n])
         ELSE CompletedOf(orders, n - 1)

\* list.sort(key=lambda x: x["id"]): stable, ascending
RECURSIVE InsertById(_, _)
InsertById(sorted, o) ==
    IF sorted = <<>> THEN <<o>>
    ELSE IF sorted[Len(sorted)].id <= o.id THEN Append(sorted, o)
    ELSE Append(InsertById(SubSeq(sorted, 1, Len(sorted) - 1), o),
                sorted[Len(sorted)])

RECURSIVE SortPrefix(_, _)
SortPrefix(orders, n) ==
    IF n = 0 THEN <<>> ELSE InsertById(SortPrefix(orders, n - 1), orders[n])

\* the sort left out: the orders stay in the order the pages came in
SortByIdMissing(orders) == orders

SortById(orders) == SortPrefix(orders, Len(orders))

(***************************************************************************)
(* Inputs.                                                                 *)
(***************************************************************************)
CredentialKeys == {"WC_API_URL", "WC_CONSUMER_KEY", "WC_CONSUMER_SECRET"}

Prefixes == {<<"E", "/">>, <<>>}
StartSequences == {608, 99999}

FileAbsent == [state |-> "absent", columns |-> {}, rows |-> <<>>]
FileUnreadable == [state |-> "unreadable", columns |-> {}, rows |-> <<>>]
Table(columns, rows) == [state |-> "ok", columns |-> columns, rows |-> rows]

ProteinRow == [woo |-> <<"P">>, zoho |-> <<"Z">>, hsn |-> <<"2">>, unit |-> NaN]

\* the states of item_database.xlsx the pipeline is run against
DbFiles ==
    {FileAbsent, FileUnreadable, Table(AllHeaders, <<ProteinRow>>)}
    \cup {Table(AllHeaders \ {h}, <<ProteinRow>>) : h \in AllHeaders}

ItemP == [name |-> <<"p", " ">>, quantity |-> 2,
          meta_data |-> <<[key |-> "HSN", value |-> <<"9">>]>>]
ItemQ == [name |-> <<"Q">>, quantity |-> 1, meta_data |-> <<>>]

\* the orders the remote may hold
OrderCatalogue ==
    { [id |-> 11, status |-> "completed", line_items |-> <<ItemP, ItemQ>>,
       total |-> NumStr(100000),
       refunds |-> <<[amount |-> NumStr(20000), total |-> Absent,
                      refund_total |-> Absent]>>],
      [id |-> 12, status |-> "Completed", line_items |-> <<>>,
       total |-> NumStr(5000), refunds |-> <<>>],
      [id |-> 13, status |-> "processing", line_items |-> <<ItemQ>>,
       total |-> NumStr(7000), refunds |-> <<>>],
      [id |-> 14, status |-> "completed", line_items |-> <<ItemQ>>,
       total |-> Num(30000), refunds |-> <<>>] }

RECURSIVE SeqsUpTo(_, _)
SeqsUpTo(S, n) ==
    IF n = 0 THEN {<<>>}
    ELSE LET shorter == SeqsUpTo(S, n - 1)
         IN  shorter \cup {Append(q, x) : q \in {r \in shorter : Len(r) = n - 1}, x \in S}

(***************************************************************************)
(* The run of the script.                                                  *)
(***************************************************************************)
NoSummary == [written |-> FALSE]

\* everything the run has not touched yet
Untouched ==
    /\ name_mapping = <<>>
    /\ invoice_prefix = <<"E", "/">>
    /\ start_sequence = 608
    /\ page = 1
    /\ all_orders = <<>>
    /\ requests = <<>>
    /\ received = <<>>
    /\ last_response = "none"
    /\ completed_orders = <<>>
    /\ order_idx = 1
    /\ sequence_number = 608
    /\ csv_rows = <<>>
    /\ invoice_log = <<>>
    /\ summary = NoSummary
    /\ order_details = <<>>
    /\ artifacts = {}
    /\ notice = "none"

Init ==
    /\ pc = "load_db"
    /\ item_db \in DbFiles
    /\ secrets \in SUBSET CredentialKeys
    /\ fn_in = <<>>
    /\ fn_out = <<>>
    /\ Untouched

\* the column check left out
MissingRequiredUnchecked(columns) == FALSE

\* `if col not in item_db_df.columns` for some required column
MissingRequired(columns) == \E col \in required_columns : col \notin columns

\* app.py:14-50.  st.stop() raises Streamlit's stop exception, which is not an
\* Exception subclass: the `except Exception` of line 48 does not catch it and
\* the run ends at line 25 with name_mapping never assigned.
LoadItemDatabase ==
    /\ pc = "load_db"
    /\ IF item_db.state = "ok"
       THEN LET columns == {NormHeader(h) : h \in item_db.columns}
            IN  IF MissingRequired(columns)
                THEN /\ notice' = "config_error"
                     /\ pc' = "stopped"
                     /\ UNCHANGED name_mapping
                ELSE /\ name_mapping' = BuildNameMapping(item_db.rows, Len(item_db.rows))
                     /\ pc' = "credentials"
                     /\ UNCHANGED notice
       ELSE /\ name_mapping' = <<>>
            /\ pc' = "credentials"
            /\ UNCHANGED notice
    /\ UNCHANGED <<item_db, secrets, invoice_prefix, start_sequence, page,
                   all_orders, requests, received, last_response,
                   completed_orders, order_idx, sequence_number, csv_rows,
                   invoice_log, summary, order_details, artifacts, fn_in, fn_out>>

\* app.py:54-65
CheckCredentials ==
    /\ pc = "credentials"
    /\ IF secrets # CredentialKeys
       THEN /\ notice' = "credentials_error"
            /\ pc' = "stopped"
       ELSE /\ pc' = "form"
            /\ UNCHANGED notice
    /\ UNCHANGED <<item_db, secrets, name_mapping, invoice_prefix, start_sequence,
                   page, all_orders, requests, received, last_response,
                   completed_orders, order_idx, sequence_number, csv_rows,
                   invoice_log, summary, order_details, artifacts, fn_in, fn_out>>

\* app.py:71-101: the form is read and the Fetch Orders button was clicked
ClickFetch ==
    /\ pc = "form"
    /\ \E start_date \in 1..2, end_date \in 1..2 : ~(start_date > end_date)
    /\ invoice_prefix' \in Prefixes
    /\ start_sequence' \in StartSequences
    /\ all_orders' = <<>>
    /\ page' = 1
    /\ pc' = "fetching"
    /\ UNCHANGED <<item_db, secrets, name_mapping, requests, received,
                   last_response, completed_orders, order_idx, sequence_number,
                   csv_rows, invoice_log, summary, order_details, artifacts,
                   notice, fn_in, fn_out>>

FetchUnchanged ==
    UNCHANGED <<item_db, secrets, name_mapping, invoice_prefix, start_sequence,
                completed_orders, order_idx, sequence_number, csv_rows,
                invoice_log, summary, order_details, artifacts, fn_in, fn_out>>

\* the error reported but the loop only left: the pages so far are processed
FetchErrorKeepsPartial ==
    /\ pc = "fetching"
    /\ requests' = Append(requests, page)
    /\ last_response' = "error"
    /\ notice' = "transport_error"
    /\ pc' = "fetched"
    /\ UNCHANGED <<page, all_orders, received>>
    /\ FetchUnchanged

\* app.py:105-116, 122-124: requests.get or raise_for_status raises
FetchError ==
    /\ pc = "fetching"
    /\ requests' = Append(requests, page)
    /\ last_response' = "error"
    /\ notice' = "transport_error"
    /\ pc' = "stopped"
    /\ UNCHANGED <<page, all_orders, received>>
    /\ FetchUnchanged

\* app.py:105-119: the page is an empty array
FetchEmpty ==
    /\ pc = "fetching"
    /\ requests' = Append(requests, page)
    /\ last_response' = "empty"
    /\ pc' = "fetched"
    /\ UNCHANGED <<page, all_orders, received, notice>>
    /\ FetchUnchanged

\* page += 1 left out
NextPageStuck(p) == p

\* all_orders.extend(orders); page += 1
NextPage(p) == p + 1

\* app.py:105-121: the page holds orders
FetchPage ==
    /\ pc = "fetching"
    /\ \E orders \in SeqsUpTo(OrderCatalogue, MaxOrders - Len(all_orders)) \ {<<>>} :
          /\ requests' = Append(requests, page)
          /\ last_response' = "page"
          /\ received' = Append(received, orders)
          /\ all_orders' = all_orders \o orders
          /\ page' = NextPage(page)
    /\ UNCHANGED <<pc, notice>>
    /\ FetchUnchanged

\* the empty-result check left out
NoOrdersUnchecked(orders) == FALSE

\* `not all_orders`
NoOrders(orders) == orders = <<>>

\* app.py:126-144
CheckOrders ==
    /\ pc = "fetched"
    /\ IF NoOrders(all_orders)
       THEN /\ notice' = "no_orders"
            /\ pc' = "stopped"
            /\ UNCHANGED <<all_orders, completed_orders, sequence_number>>
       ELSE LET sorted == SortById(all_orders)
                completed == CompletedOf(sorted, Len(sorted))
            IN  /\ all_orders' = sorted
                /\ sequence_number' = start_sequence
                /\ completed_orders' = completed
                /\ IF completed = <<>>
                   THEN /\ notice' = "no_completed"
                        /\ pc' = "stopped"
                   ELSE /\ pc' = "flatten"
                        /\ UNCHANGED notice
    /\ UNCHANGED <<item_db, secrets, name_mapping, invoice_prefix, start_sequence,
                   page, requests, received, last_response, order_idx, csv_rows,
                   invoice_log, summary, order_details, artifacts, fn_in, fn_out>>

\* app.py:146-228: one iteration of `for order in completed_orders`
FlattenOrder ==
    /\ pc = "flatten"
    /\ LET order == completed_orders[order_idx]
           invoice_number == InvoiceNumber(invoice_prefix, sequence_number)
       IN  /\ sequence_number' = AdvanceSequence(sequence_number, order)
           /\ invoice_log' = Append(invoice_log, invoice_number)
           /\ csv_rows' = csv_rows \o OrderRows(order, invoice_number, name_mapping)
    /\ order_idx' = order_idx + 1
    /\ pc' = IF order_idx = Len(completed_orders) THEN "summary" ELSE "flatten"
    /\ UNCHANGED <<item_db, secrets, name_mapping, invoice_prefix, start_sequence,
                   page, all_orders, requests, received, last_response,
                   completed_orders, summary, order_details, artifacts, notice,
                   fn_in, fn_out>>

\* app.py:241-280
ComputeSummary ==
    /\ pc = "summary"
    /\ summary' =
         [written |-> TRUE,
          total_orders_fetched |-> Len(all_orders),
          completed |-> StatusCount(all_orders, {"completed"}),
          processing |-> StatusCount(all_orders, {"processing"}),
          on_hold |-> StatusCount(all_orders, {"on-hold", "on_hold", "on hold"}),
          cancelled |-> StatusCount(all_orders, {"cancelled", "canceled"}),
          pending |-> StatusCount(all_orders,
                                  {"pending", "pending payment", "pending-payment"}),
          first_order_id |-> completed_orders[1].id,
          last_order_id |-> completed_orders[Len(completed_orders)].id,
          first_invoice_number |-> InvoiceNumber(invoice_prefix, start_sequence),
          last_invoice_number |-> InvoiceNumber(invoice_prefix, sequence_number - 1),
          total_revenue |-> TotalRevenue(completed_orders, Len(completed_orders))]
    /\ pc' = "details"
    /\ UNCHANGED <<item_db, secrets, name_mapping, invoice_prefix, start_sequence,
                   page, all_orders, requests, received, last_response,
                   completed_orders, order_idx, sequence_number, csv_rows,
                   invoice_log, order_details, artifacts, notice, fn_in, fn_out>>

\* sequence_number_temp taken from the counter the row loop has advanced
DetailsStartFromCounter(start, counter) == counter

\* sequence_number_temp = start_sequence
DetailsStart(start, counter) == start

\* app.py:286-299: the rows of orders 1..n, sequence_number_temp advancing by one
RECURSIVE OrderDetailsRows(_, _, _, _)
OrderDetailsRows(orders, n, prefix, first) ==
    IF n = 0 THEN <<>>
    ELSE Append(OrderDetailsRows(orders, n - 1, prefix, first),
                [invoice_number |-> InvoiceNumber(prefix, first + (n - 1)),
                 order_number |-> orders[n].id,
                 order_total |-> NetTotal(orders[n])])

RECURSIVE SumOrderTotal(_, _)
SumOrderTotal(rows, n) ==
    IF n = 0 THEN 0 ELSE SumOrderTotal(rows, n - 1) + rows[n].order_total

\* app.py:284-309
BuildOrderDetails ==
    /\ pc = "details"
    /\ LET rows == OrderDetailsRows(completed_orders, Len(completed_orders),
                                    invoice_prefix,
                                    DetailsStart(start_sequence, sequence_number))
           grand_total_row == [invoice_number |-> <<"Grand Total">>,
                               order_number |-> <<>>,
                               order_total |-> SumOrderTotal(rows, Len(rows))]
       IN  order_details' = Append(rows, grand_total_row)
    /\ pc' = "export"
    /\ UNCHANGED <<item_db, secrets, name_mapping, invoice_prefix, start_sequence,
                   page, all_orders, requests, received, last_response,
                   completed_orders, order_idx, sequence_number, csv_rows,
                   invoice_log, summary, artifacts, notice, fn_in, fn_out>>

\* app.py:313-347
Export ==
    /\ pc = "export"
    /\ artifacts' = {"csv", "xlsx", "zip"}
    /\ pc' = "done"
    /\ UNCHANGED <<item_db, secrets, name_mapping, invoice_prefix, start_sequence,
                   page, all_orders, requests, received, last_response,
                   completed_orders, order_idx, sequence_number, csv_rows,
                   invoice_log, summary, order_details, notice, fn_in, fn_out>>

Next ==
    \/ LoadItemDatabase
    \/ CheckCredentials
    \/ ClickFetch
    \/ FetchError
    \/ FetchEmpty
    \/ FetchPage
    \/ CheckOrders
    \/ FlattenOrder
    \/ ComputeSummary
    \/ BuildOrderDetails
    \/ Export

Spec == Init /\ [][Next]_vars


(***************************************************************************)
(* Item resolution on its own: any table of up to MaxRows rows against any *)
(* line item.                                                              *)
(***************************************************************************)
ResolverRows ==
    [woo : {<<"P">>, <<"p", " ">>, NaN}, zoho : {NaN, <<"Z">>},
     hsn : {NaN, <<"2">>}, unit : {NaN, <<"k">>}]

ResolverMeta ==
    { <<>>,
      <<[key |-> "HSN", value |-> <<"9">>]>>,
      <<[key |-> "hsn", value |-> None]>>,
      <<[key |-> "hsn", value |-> <<"9">>], [key |-> "Usage Unit", value |-> <<"g">>]>>,
      <<[key |-> "hsn", value |-> <<"9">>], [key |-> "hsn", value |-> <<"8">>],
        [key |-> "other", value |-> <<"g">>]>> }

ResolverItems ==
    [name : {<<"P">>, <<" ", "p">>, <<"r">>}, quantity : {1}, meta_data : ResolverMeta]

InitResolver ==
    /\ pc = "resolve"
    /\ item_db = FileAbsent
    /\ secrets = CredentialKeys
    /\ fn_in \in [rows : SeqsUpTo(ResolverRows, MaxRows), item : ResolverItems]
    /\ fn_out = <<>>
    /\ Untouched

\* app.py:31-43 then app.py:157-195 for one line item
ApplyResolver ==
    /\ pc = "resolve"
    /\ name_mapping' = BuildNameMapping(fn_in.rows, Len(fn_in.rows))
    /\ fn_out' = ResolveItem(name_mapping', fn_in.item)
    /\ pc' = "resolved"
    /\ UNCHANGED <<item_db, secrets, invoice_prefix, start_sequence, page,
                   all_orders, requests, received, last_response,
                   completed_orders, order_idx, sequence_number, csv_rows,
                   invoice_log, summary, order_details, artifacts, notice, fn_in>>

SpecResolver == InitResolver /\ [][ApplyResolver]_vars

(***************************************************************************)
(* Net revenue on its own: any short list of orders with any refunds.      *)
(***************************************************************************)
RefundDomain ==
    [amount : {Absent, Null, EmptyStr, Num(0), Num(20000), NumStr(0), NumStr(5000), Junk},
     total : {Absent, Num(30000)},
     refund_total : {Absent, NumStr(7000)}]

RevenueOrders ==
    [id : {21}, status : {"completed", "Completed", "processing"},
     line_items : {<<>>}, total : {NumStr(100000), Junk},
     refunds : SeqsUpTo(RefundDomain, MaxRefunds)]

PaidOrder ==
    [id |-> 20, status |-> "completed", line_items |-> <<>>,
     total |-> NumStr(100000),
     refunds |-> <<[amount |-> NumStr(20000), total |-> Absent,
                    refund_total |-> Absent]>>]

InitRevenue ==
    /\ pc = "revenue"
    /\ item_db = FileAbsent
    /\ secrets = CredentialKeys
    /\ fn_in \in {<<PaidOrder>>} \cup {<<o>> : o \in RevenueOrders}
                 \cup {<<PaidOrder, o>> : o \in RevenueOrders}
                 \cup {<<o, PaidOrder>> : o \in RevenueOrders}
    /\ fn_out = 0
    /\ Untouched

\* app.py:139 then app.py:241-247
ApplyRevenue ==
    /\ pc = "revenue"
    /\ completed_orders' = CompletedOf(fn_in, Len(fn_in))
    /\ fn_out' = TotalRevenue(completed_orders', Len(completed_orders'))
    /\ pc' = "revenue_done"
    /\ UNCHANGED <<item_db, secrets, name_mapping, invoice_prefix, start_sequence,
                   page, all_orders, requests, received, last_response, order_idx,
                   sequence_number, csv_rows, invoice_log, summary, order_details,
                   artifacts, notice, fn_in>>

SpecRevenue == InitRevenue /\ [][ApplyRevenue]_vars

(***************************************************************************)
(* Properties.                                                             *)
(***************************************************************************)
CharDigit(c) ==
    CASE c = "0" -> 0 [] c = "1" -> 1 [] c = "2" -> 2 [] c = "3" -> 3
      [] c = "4" -> 4 [] c = "5" -> 5 [] c = "6" -> 6 [] c = "7" -> 7
      [] c = "8" -> 8 [] c = "9" -> 9 [] OTHER -> -1

IsDigits(s) == \A i \in 1..Len(s) : CharDigit(s[i]) >= 0

RECURSIVE DecimalValue(_)
DecimalValue(s) ==
    IF s = <<>> THEN 0
    ELSE 10 * DecimalValue(SubSeq(s, 1, Len(s) - 1)) + CharDigit(s[Len(s)])

\* the text after the prefix
Suffix(inv) == SubSeq(inv, Len(invoice_prefix) + 1, Len(inv))

\* inv is the prefix followed by n in decimal, zero-padded to 5 digits and no further
IsInvoiceOf(inv, n) ==
    /\ Len(inv) >= Len(invoice_prefix) + 5
    /\ SubSeq(inv, 1, Len(invoice_prefix)) = invoice_prefix
    /\ IsDigits(Suffix(inv))
    /\ DecimalValue(Suffix(inv)) = n
    /\ Len(Suffix(inv)) > 5 => Suffix(inv)[1] # "0"

RECURSIVE Concat(_, _)
Concat(pages, n) == IF n = 0 THEN <<>> ELSE Concat(pages, n - 1) \o pages[n]

RECURSIVE ItemsBefore(_, _)
ItemsBefore(orders, k) ==
    IF k <= 1 THEN 0 ELSE ItemsBefore(orders, k - 1) + Len(orders[k - 1].line_items)

Processed == Len(invoice_log)

\* C1: the processed orders are in ascending order-identifier order whatever the
\* order of the pages, the k-th of them gets prefix + (start + k - 1) zero-padded to
\* at least 5 digits, prefix "E/" with start 608 gives "E/00608" first, and no
\* two of them get the same invoice number.
C1_InvoicesAscendingById ==
    pc \in {"flatten", "summary", "details", "export", "done"} =>
        /\ \A i, j \in 1..Len(completed_orders) :
              i < j => completed_orders[i].id <= completed_orders[j].id
        /\ \A k \in 1..Processed : IsInvoiceOf(invoice_log[k], start_sequence + k - 1)
        /\ \A i, j \in 1..Processed : i # j => invoice_log[i] # invoice_log[j]
        /\ (Processed >= 1 /\ invoice_prefix = <<"E", "/">> /\ start_sequence = 608)
              => invoice_log[1] = <<"E", "/", "0", "0", "6", "0", "8">>

C1_Witness ==
    /\ pc = "done"
    /\ Processed >= 2
    /\ \E i \in 1..Len(received) : \E a, b \in 1..Len(received[i]) :
          a < b /\ received[i][a].id > received[i][b].id
             /\ LowerStatus(received[i][a].status) = "completed"
             /\ LowerStatus(received[i][b].status) = "completed"

\* C2: each processed order with n line items has exactly n consecutive ledger
\* rows, all with its invoice number and identifier; the rows number the sum of
\* the line-item counts; the counter has advanced once per processed order.
C2_OneRowPerLineItem ==
    pc \in {"flatten", "summary", "details", "export", "done"} =>
        /\ sequence_number = start_sequence + Processed
        /\ Len(csv_rows) = ItemsBefore(completed_orders, Processed + 1)
        /\ \A k \in 1..Processed :
              \A i \in 1..Len(completed_orders[k].line_items) :
                 LET row == csv_rows[ItemsBefore(completed_orders, k) + i]
                 IN  /\ row.invoice_number = invoice_log[k]
                     /\ row.purchase_order = completed_orders[k].id
                     /\ row.quantity = completed_orders[k].line_items[i].quantity

C2_Witness ==
    /\ pc = "done"
    /\ Processed >= 2
    /\ Len(completed_orders[1].line_items) = 2
    /\ Len(csv_rows) >= 3

\* C3: pages 1, 2, 3, ... are requested in order and once each, every request
\* before the last returned a non-empty page, the collection is the concatenation
\* of those pages, and the loop is left at the first empty page.
C3_PagesInOrderAndConcatenated ==
    /\ \A i \in 1..Len(requests) : requests[i] = i
    /\ Len(requests) = Len(received) + (IF last_response \in {"empty", "error"} THEN 1 ELSE 0)
    /\ \A i \in 1..Len(received) : received[i] # <<>>
    /\ pc \in {"fetching", "fetched"} =>
          all_orders = Concat(received, Len(received))
    /\ pc = "fetching" => page = Len(requests) + 1
    /\ last_response = "empty" => pc # "fetching"

C3_Witness ==
    /\ pc = "fetched"
    /\ Len(received) >= 2
    /\ Len(all_orders) = MaxOrders

\* C4: after a transport error the run is stopped: the failed request was the
\* last one and was made once, nothing was transformed and nothing was exported.
C4_TransportErrorAborts ==
    notice = "transport_error" =>
        /\ pc = "stopped"
        /\ last_response = "error"
        /\ \A i, j \in 1..Len(requests) : i < j => requests[i] < requests[j]
        /\ Len(requests) = Len(received) + 1
        /\ csv_rows = <<>>
        /\ invoice_log = <<>>
        /\ summary = NoSummary
        /\ order_details = <<>>
        /\ artifacts = {}

C4_Witness ==
    /\ notice = "transport_error"
    /\ Len(received) >= 1
    /\ all_orders # <<>>

\* C5: once the fetch has ended with zero orders the run is halted with the
\* "no orders" warning: no row, no invoice number, no export.
C5_NoOrdersHalts ==
    /\ (last_response = "empty" /\ received = <<>> /\ pc # "fetched") =>
          /\ pc = "stopped"
          /\ notice = "no_orders"
    /\ notice = "no_orders" =>
          /\ pc = "stopped"
          /\ csv_rows = <<>>
          /\ invoice_log = <<>>
          /\ summary = NoSummary
          /\ order_details = <<>>
          /\ artifacts = {}

C5_Witness ==
    /\ notice = "no_orders"
    /\ requests = <<1>>

\* C6: when the trimmed, lower-cased item name is a key of the mapping, each of
\* item name, HSN and usage unit is the mapping's value if that value is
\* non-empty and the item's raw value otherwise; with no match all three are raw.
C6_MappingWinsOnlyWhenNonEmpty ==
    pc = "resolved" =>
        LET item == fn_in.item
            key == Lower(Strip(item.name))
            raw_hsn == MetaLookup(item.meta_data, "hsn", Len(item.meta_data))
            raw_unit == MetaLookup(item.meta_data, "usage unit", Len(item.meta_data))
        IN  IF key \in DOMAIN name_mapping
            THEN LET m == name_mapping[key]
                 IN  /\ fn_out.item_name = IF m.zoho # <<>> THEN m.zoho ELSE item.name
                     /\ fn_out.hsn = IF m.hsn # <<>> THEN m.hsn ELSE raw_hsn
                     /\ fn_out.usage_unit =
                           IF m.usage_unit # <<>> THEN m.usage_unit ELSE raw_unit
            ELSE /\ fn_out.item_name = item.name
                 /\ fn_out.hsn = raw_hsn
                 /\ fn_out.usage_unit = raw_unit

\* the sum of f over a set of indices
RECURSIVE SumOver(_, _)
SumOver(S, f) ==
    IF S = {} THEN 0
    ELSE LET x == CHOOSE y \in S : TRUE IN f[x] + SumOver(S \ {x}, f)

RefundFields(r) == <<r.amount, r.total, r.refund_total>>

\* the amount of the first field that is present (the key is there, not null)
FirstPresentAmount(r) ==
    LET at == {i \in 1..3 : RefundFields(r)[i].t \notin {"absent", "null"}}
    IN  IF at = {} THEN 0
        ELSE to_float(RefundFields(r)[CHOOSE i \in at : \A j \in at : i <= j])

\* the amount of the first field that is neither absent, null, "" nor the number 0
FirstTruthyAmount(r) ==
    LET at == {i \in 1..3 : /\ RefundFields(r)[i].t \notin {"absent", "null", "empty"}
                            /\ RefundFields(r)[i] # Num(0)}
    IN  IF at = {} THEN 0
        ELSE to_float(RefundFields(r)[CHOOSE i \in at : \A j \in at : i <= j])

RevenueBy(amount(_)) ==
    LET done == {i \in 1..Len(fn_in) : LowerStatus(fn_in[i].status) = "completed"}
        net == [i \in done |->
                  to_float(fn_in[i].total)
                  - SumOver(1..Len(fn_in[i].refunds),
                            [j \in 1..Len(fn_in[i].refunds) |-> amount(fn_in[i].refunds[j])])]
    IN  SumOver(done, net)

\* C7 as stated: net revenue is the sum over completed orders of total minus
\* refunds, each refund read from the first PRESENT of amount, total, refund_total.
C7_FirstPresentField ==
    pc = "revenue_done" => fn_out = RevenueBy(FirstPresentAmount)

\* C7 amended: each refund is read from the first of amount, total, refund_total
\* whose value is neither missing, null, empty nor the number zero (0 if none);
\* the order 1000.00 with one refund 200.00 nets 800.00; other statuses add nothing.
C7_FirstNonEmptyField ==
    pc = "revenue_done" =>
        /\ fn_out = RevenueBy(FirstTruthyAmount)
        /\ fn_in = <<PaidOrder>> => fn_out = 80000

C7_Witness ==
    /\ pc = "revenue_done"
    /\ Len(fn_in) = 2
    /\ \E i \in 1..2 :
          /\ LowerStatus(fn_in[i].status) = "completed"
          /\ Len(fn_in[i].refunds) = 1
          /\ fn_in[i].refunds[1].amount = Num(0)
          /\ fn_in[i].refunds[1].total = Num(30000)
    /\ fn_out = 150000

MissingColumn ==
    /\ item_db.state = "ok"
    /\ \E col \in required_columns : col \notin {NormHeader(h) : h \in item_db.columns}

\* C8: a mapping table without a required column, or a missing credential, stops
\* the run before any request to the order resource and before any export; an
\* absent table is no error and the run goes on with the empty mapping.
C8_ConfigErrorBeforeFetch ==
    /\ (MissingColumn /\ pc # "load_db") =>
          /\ pc = "stopped"
          /\ notice = "config_error"
    /\ (~MissingColumn /\ secrets # CredentialKeys /\ pc \notin {"load_db", "credentials"}) =>
          /\ pc = "stopped"
          /\ notice = "credentials_error"
    /\ notice \in {"config_error", "credentials_error"} =>
          /\ pc = "stopped"
          /\ requests = <<>>
          /\ csv_rows = <<>>
          /\ artifacts = {}
    /\ (item_db = FileAbsent /\ pc # "load_db") =>
          /\ name_mapping = <<>>
          /\ notice # "config_error"
          /\ (secrets = CredentialKeys /\ pc # "credentials") =>
                (pc # "stopped" \/ notice \in {"transport_error", "no_orders", "no_completed"})

C8_Witness ==
    /\ pc = "stopped"
    /\ notice = "config_error"
    /\ secrets = CredentialKeys
    /\ item_db.columns = AllHeaders \ {"HSN"}

\* C9: a processed order without line items has no ledger row, yet its invoice
\* number is spent: the order after it gets the number two above the order
\* before it, and the number in between is on no exported row.
C9_EmptyOrderConsumesSlot ==
    pc \in {"flatten", "summary", "details", "export", "done"} =>
        \A k \in 1..Processed :
            completed_orders[k].line_items = <<>> =>
                /\ \A i \in 1..Len(csv_rows) :
                      /\ csv_rows[i].purchase_order # completed_orders[k].id
                      /\ csv_rows[i].invoice_number # invoice_log[k]
                /\ sequence_number >= start_sequence + k
                /\ (1 < k /\ k < Processed) =>
                      DecimalValue(Suffix(invoice_log[k + 1]))
                         = DecimalValue(Suffix(invoice_log[k - 1])) + 2

C9_Witness ==
    /\ pc = "done"
    /\ Processed = 3
    /\ completed_orders[2].line_items = <<>>
    /\ completed_orders[1].line_items # <<>>
    /\ completed_orders[3].line_items # <<>>

\* C10: at export the Order Details sheet has one row per processed order, with
\* the invoice number that order's ledger rows carry, then one grand-total row;
\* the summary's invoice range is the first to the last processed order's number.
C10_CountersAgree ==
    pc \in {"export", "done"} =>
        /\ Len(order_details) = Len(completed_orders) + 1
        /\ order_details[Len(order_details)].invoice_number = <<"Grand Total">>
        /\ Processed = Len(completed_orders)
        /\ \A k \in 1..Len(completed_orders) :
              /\ order_details[k].order_number = completed_orders[k].id
              /\ order_details[k].invoice_number = invoice_log[k]
              /\ \A i \in 1..Len(completed_orders[k].line_items) :
                    csv_rows[ItemsBefore(completed_orders, k) + i].invoice_number
                       = order_details[k].invoice_number
        /\ summary.first_invoice_number = invoice_log[1]
        /\ summary.last_invoice_number = invoice_log[Processed]
        /\ summary.first_invoice_number = order_details[1].invoice_number
        /\ summary.last_invoice_number
              = order_details[Len(completed_orders)].invoice_number

C10_Witness ==
    /\ pc = "done"
    /\ Len(order_details) = 4
    /\ csv_rows # <<>>
    /\ artifacts # {}

====
